---- MODULE Spec2Model ----
(***************************************************************************)
(* Orbital simulation and interaction engine of solar-system-explorer      *)
(* (frontend/src/app: App and the SolarSystem component).                  *)
(*                                                                         *)
(* Units.  Lengths are integers counting fifths of a world unit (so that   *)
(* visualRadius * 8 is an integer for every entry of VISUAL_SIZES);        *)
(* simulation speeds count 64ths (0.125 is 8, 64 is 4096); the transition  *)
(* progress t counts hundredths (0.04 is 4); halo opacities count          *)
(* hundredths (0.45 is 45); mean anomalies and moon angles count 32nds of  *)
(* a revolution.                                                           *)
(* Vector arithmetic rounds to that lattice where the code rounds to a     *)
(* double.                                                                 *)
(***************************************************************************)
EXTENDS Integers, Sequences, FiniteSets, TLC

VARIABLES
    simulationSpeed,     \* SolarSystem.simulationSpeed signal
    meanAnomaly,         \* PlanetObject / CometObject.meanAnomaly, per body
    moons,               \* MoonObject: angle, mesh position, orbit-ring position
    hitRadius,           \* world radius of each rescaled hit proxy (hitMesh.scale)
    scene,               \* hitMeshes, planetObjects, cometObjects, moonObjects
    camera,              \* camera.position
    target,              \* controls.target
    controlsEnabled,     \* controls.enabled
    zoomAnim,            \* SolarSystem._zoomAnim
    hoveredPlanet,       \* SolarSystem.hoveredPlanet signal (tooltip)
    currentHoveredGlow,  \* SolarSystem.currentHoveredGlow
    glowOpacity,         \* glowMesh.material.opacity, per halo
    currentHoveredBelt,  \* SolarSystem.currentHoveredBelt
    beltMat,             \* asteroidBeltMat colour and size
    cursor,              \* canvas.style.cursor
    navInterval,         \* SolarSystem._navInterval (the action it repeats)
    selectedPlanet,      \* App.selectedPlanet signal
    emitted,             \* events emitted by the handler that ran last
    lastEvent,           \* the handler that ran last, with its ray hit
    focusCount,          \* number of focus gestures so far (bounded)
    navSteps,            \* number of navigation and wheel steps so far (bounded)
    timers,              \* the browser's running setInterval timers, by action
    listeners,           \* the event types the component is subscribed to
    animationId,         \* the animation-frame request ("requested"/"cancelled")
    destroyed,           \* ngOnDestroy has run
    appPlanets,          \* App.planets signal
    loading,             \* App.loading signal
    error,               \* App.error signal
    fetch,               \* the getPlanets() request ("pending"/"done")
    kepler               \* the last solveKepler call: its input and its E

vars == <<simulationSpeed, meanAnomaly, moons, hitRadius, scene, camera,
          target, controlsEnabled, zoomAnim, hoveredPlanet, currentHoveredGlow, glowOpacity,
          currentHoveredBelt, beltMat, cursor, navInterval, selectedPlanet,
          emitted, lastEvent, focusCount, navSteps, timers, listeners,
          animationId, destroyed, appPlanets, loading, error, fetch, kepler>>

(***************************************************************************)
(* Bounds of the model                                                     *)
(***************************************************************************)
\* focus gestures (double-clicks that start a transition) per behaviour
MaxFocus == 1
\* timer-driven navigation steps per behaviour
MaxNavSteps == 2

(***************************************************************************)
(* Values                                                                  *)
(***************************************************************************)
NULL == [null |-> TRUE]        \* null / undefined where the value is an object
UNDEFINED == "undefined"       \* undefined where the value is a name

Abs(n) == IF n < 0 THEN -n ELSE n
Min(a, b) == IF a < b THEN a ELSE b
Max(a, b) == IF a > b THEN a ELSE b

\* Math.round of the rational n / d, d > 0
RoundDiv(n, d) == (n + d \div 2) \div d

\* bisection for the integer square root; the midpoint and the argument are
\* bound as values, so that they are computed once
RECURSIVE SqrtIter(_, _, _)
SqrtIter(n, lo, hi) ==
    IF lo >= hi THEN lo
    ELSE CHOOSE r \in {IF mid * mid <= n THEN SqrtIter(n, mid, hi)
                                          ELSE SqrtIter(n, lo, mid - 1) :
                          mid \in {(lo + hi + 1) \div 2}} : TRUE

\* Math.sqrt, rounded down to the lattice
Sqrt(n) == CHOOSE r \in {SqrtIter(v, 0, 46340) : v \in {n}} : TRUE

\* THREE.Vector3 operations
Vec(x, y, z) == <<x, y, z>>
Origin == Vec(0, 0, 0)
VAdd(a, b) == Vec(a[1] + b[1], a[2] + b[2], a[3] + b[3])
VSub(a, b) == Vec(a[1] - b[1], a[2] - b[2], a[3] - b[3])
LengthSq(v) == v[1] * v[1] + v[2] * v[2] + v[3] * v[3]
Length(v) == Sqrt(LengthSq(v))
DistanceTo(a, b) == Length(VSub(a, b))

\* the precision Vector3.length keeps for v: the finest of 1/256, 1/16 and 1
\* lattice units that the integer range allows for a vector of v's size
LengthScale(v) ==
    IF LengthSq(v) < 32768 THEN 256
    ELSE IF LengthSq(v) < 8388608 THEN 16
    ELSE 1

\* v.clone().normalize().multiplyScalar(len): normalize divides by
\* (length() || 1), so the zero vector stays the zero vector
SetLength(v, len) ==
    LET s == LengthScale(v)
        l == Sqrt(LengthSq(v) * s * s)
        d == IF l = 0 THEN 1 ELSE l
    IN  Vec(RoundDiv(v[1] * len * s, d), RoundDiv(v[2] * len * s, d),
            RoundDiv(v[3] * len * s, d))

\* target.clone().addScaledVector(dir, dist) with dir = normalize(v)
AddScaledDir(p, v, dist) == VAdd(p, SetLength(v, dist))

(***************************************************************************)
(* Body records                                                            *)
(***************************************************************************)
\* distance_from_sun counts tenths of an AU; orbital_period counts the period
\* whose per-frame step at speed 0.125 is three quarters of a revolution
PlanetRec(name, nameSr, color, star, belt, oort, comet, dist, period) ==
    [name |-> name, name_sr |-> nameSr, color |-> color, is_star |-> star,
     is_asteroid_belt |-> belt, is_oort_cloud |-> oort, is_comet |-> comet,
     distance_from_sun |-> dist, orbital_period |-> period]

\* The @Input() planets list: the records served by the API.  The orbiting
\* records have eccentricity 0, inclination 0 and ascending node 0, and an
\* orbital period that makes the per-frame step at the minimum speed three
\* quarters (Earth) or a quarter (Jupiter) of a revolution.
planets ==
    << PlanetRec("Sun", "Sunce", "#FDB813", TRUE, FALSE, FALSE, FALSE, 0, 0),
       PlanetRec("Earth", "Zemlja", "#4B9CD3", FALSE, FALSE, FALSE, FALSE, 10, 1),
       PlanetRec("Jupiter", "Jupiter", "#C88B3A", FALSE, FALSE, FALSE, FALSE, 52, 3) >>

ASTEROID_BELT_PLANET ==
    PlanetRec("Asteroid Belt", "Asteroidni pojas", "#aa9966", FALSE, TRUE, FALSE, FALSE, 27, 0)

OORT_CLOUD_PLANET ==
    PlanetRec("Oort Cloud", "Ortov oblak", "#aaccff", FALSE, FALSE, TRUE, FALSE, 500000, 0)

\* createComets builds one record per COMET_DEFS entry; the model keeps
\* Halley.  Its orbital_period counts, like the planets', the period whose
\* per-frame step at speed 0.125 is three quarters of a revolution.
COMET_PLANET ==
    PlanetRec("Halley", "1P/Halley", "#99ccff", FALSE, FALSE, FALSE, TRUE, 178, 3)

\* MOON_DEFS: the model keeps the Moon, Phobos and Io.  orbitVis counts fifths
\* of a world unit, period counts like orbital_period, and cosInc and sinInc
\* are the thousandths createMoons computes from incDeg.
MOON_DEFS ==
    << [name |-> "Mesec", parentName |-> "Earth", orbitVis |-> 9, period |-> 1,
        cosInc |-> 996, sinInc |-> 90],
       [name |-> "Fobos", parentName |-> "Mars", orbitVis |-> 7, period |-> 1,
        cosInc |-> 898, sinInc |-> 439],
       [name |-> "Io", parentName |-> "Jupiter", orbitVis |-> 24, period |-> 3,
        cosInc |-> 999, sinInc |-> 39] >>

\* VISUAL_SIZES, in tenths of a world unit
VISUAL_SIZES ==
    [n \in {"Sun", "Mercury", "Venus", "Earth", "Mars", "Jupiter", "Saturn",
            "Uranus", "Neptune"} |->
        CASE n = "Sun" -> 18 [] n = "Mercury" -> 7 [] n = "Venus" -> 11
          [] n = "Earth" -> 12 [] n = "Mars" -> 9 [] n = "Jupiter" -> 32
          [] n = "Saturn" -> 28 [] n = "Uranus" -> 22 [] n = "Neptune" -> 21]

\* the records an input list is drawn from: those of planets, Mars (whose
\* moon Phobos is configured) and a record whose name VISUAL_SIZES lacks
InputRecords ==
    {planets[i] : i \in 1..Len(planets)}
      \cup {PlanetRec("Mars", "Mars", "#C1440E", FALSE, FALSE, FALSE, FALSE, 15, 2),
            PlanetRec("Pluto", "Pluton", "#ccbbaa", FALSE, FALSE, FALSE, FALSE, 395, 3)}

\* a build that skips the records whose name VISUAL_SIZES lacks
buildSolarSystemOfKnown(list) ==
    LET known == SelectSeq(list, LAMBDA r : r.name \in DOMAIN VISUAL_SIZES)
    IN  [i \in 1..Len(known) |->
            [planet |-> known[i], visualRadius |-> VISUAL_SIZES[known[i].name]]]

\* buildSolarSystem: one object per record of the list, each with a mesh, a
\* halo and a hit proxy; visualRadius (tenths) is VISUAL_SIZES[name] ?? 1
buildSolarSystem(list) ==
    [i \in 1..Len(list) |->
        [planet |-> list[i],
         visualRadius |-> IF list[i].name \in DOMAIN VISUAL_SIZES
                          THEN VISUAL_SIZES[list[i].name] ELSE 10]]

\* createMoons: the MOON_DEFS entries whose parent is found in planetObjects,
\* the objects of the non-star records
createMoons(objects) ==
    LET planetObjects == SelectSeq(objects, LAMBDA o : ~o.planet.is_star)
        Found(def) == \E i \in 1..Len(planetObjects) :
                          planetObjects[i].planet.name = def.parentName
    IN  SelectSeq(MOON_DEFS, Found)

\* the scene ngAfterViewInit builds for an input list: hitMeshes in the order
\* of the pushes (bodies, belt, Oort cloud, comets), and the object lists
BuildScene(list) ==
    LET objects == buildSolarSystem(list)
    IN  [hitMeshes |-> [i \in 1..Len(objects) |-> objects[i].planet]
                         \o <<ASTEROID_BELT_PLANET, OORT_CLOUD_PLANET, COMET_PLANET>>,
         planetObjects |-> SelectSeq(objects, LAMBDA o : ~o.planet.is_star),
         cometObjects |-> <<COMET_PLANET>>,
         moonObjects |-> createMoons(objects)]

PlanetNames == {planets[i].name : i \in 1..Len(planets)}
\* planetObjects: the non-star records of the input
OrbitingNames == {planets[i].name : i \in {j \in 1..Len(planets) : ~planets[j].is_star}}
\* the bodies that have a mean anomaly: planetObjects and cometObjects
AnomalyNames == OrbitingNames \cup {COMET_PLANET.name}
\* moonObjects: the moons createMoons makes for planets
MoonNames ==
    {createMoons(buildSolarSystem(planets))[i].name :
        i \in 1..Len(createMoons(buildSolarSystem(planets)))}
\* the owners of the proxies pushed to hitMeshes
HitNames == PlanetNames \cup {ASTEROID_BELT_PLANET.name, OORT_CLOUD_PLANET.name,
                              COMET_PLANET.name}
\* the owners that have a halo (makeHitMesh stores glowMesh in userData)
GlowNames == PlanetNames \cup {COMET_PLANET.name}

\* hitMesh.userData['planet']
PlanetOf(name) ==
    IF name = ASTEROID_BELT_PLANET.name THEN ASTEROID_BELT_PLANET
    ELSE IF name = OORT_CLOUD_PLANET.name THEN OORT_CLOUD_PLANET
    ELSE IF name = COMET_PLANET.name THEN COMET_PLANET
    ELSE CHOOSE r \in InputRecords : r.name = name

\* the result of raycaster.intersectObjects when nothing is intersected
NoHit == "none"

(***************************************************************************)
(* Program constants                                                       *)
(***************************************************************************)
MinSpeed == 8                \* 0.125
DefaultSpeed == 16           \* 0.25
MaxSpeed == 4096             \* 64
ReadmeMinSpeed == 32         \* 0.5, the lowest speed the README documents
minDistance == 75            \* controls.minDistance = 15
maxDistance == 30000         \* controls.maxDistance = 6000
OortGate == 9000             \* camera.position.length() > 1800
OortRadius == 12250          \* SphereGeometry(2450, 32, 16)
BeltZoom == 600              \* zoomDist = 120
CometZoom == 100             \* zoomDist = 20
ZoomFloorMargin == 25        \* controls.minDistance + 5
ProgressStep == 4            \* a.t + 0.04
ProgressEnd == 100           \* Math.min(.., 1)
HoverOpacity == 45           \* opacity = 0.45
Revolution == 32             \* 2 * Math.PI of mean anomaly

(***************************************************************************)
(* Kepler solver and body positions                                        *)
(***************************************************************************)
\* getOrbitRadius: 1 AU = 35 world units
getOrbitRadius(distanceAU) == (distanceAU * 35) \div 2

\* obj.speed = (365.25 / planet.orbital_period) * 0.006
PlanetSpeed(planet) == 3 \div planet.orbital_period

\* Math.cos and Math.sin on the quarter turns of the lattice
Cos4 == <<1, 0, -1, 0>>
Sin4 == <<0, 1, 0, -1>>

\* solveKepler for e = 0, I = 0, Omega = 0: every Newton step leaves E = M,
\* b = a, and the frame transform is (xOrb, 0, yOrb)
solveKepler(M, a) ==
    LET q == ((M % Revolution) * 4) \div Revolution
    IN  Vec(a * Cos4[q + 1], 0, a * Sin4[q + 1])

keplerToWorld(name, M) == solveKepler(M, getOrbitRadius(PlanetOf(name).distance_from_sun))

\* keplerCometToWorld for Halley (a = 17.834 AU, e = 0.96714, I = 162.26,
\* Omega = 58.42): the comet's mean anomaly counts from its start anomaly
\* (startFraction 0.42), and the positions are those of solveKepler on the
\* quarter turns past it
CometPosition(M) ==
    LET q == ((M % Revolution) * 4) \div Revolution
    IN  << Vec(-2998, 61, -5243), Vec(-3308, -128, -4619),
           Vec(-2047, -240, -1895), Vec(-1609, 223, -3951) >>[q + 1]

\* hits[0].object.position: hitMesh.position of the proxy owned by name
HitPosition(name, anomalies) ==
    IF PlanetOf(name).is_comet THEN CometPosition(anomalies[name])
    ELSE IF name \in DOMAIN anomalies THEN keplerToWorld(name, anomalies[name])
    ELSE Origin

\* the MOON_DEFS entry of a moon
MoonDef(name) == MOON_DEFS[CHOOSE i \in 1..Len(MOON_DEFS) : MOON_DEFS[i].name = name]

\* speed = (365.25 / def.periodDays) * 0.006
MoonSpeed(def) == 3 \div def.period

\* the moon's mesh position: the parent's position pp plus the circular
\* offset (cos(angle) r, sinInc sin(angle) r, cosInc sin(angle) r)
MoonPosition(def, angle, pp) ==
    LET q == ((angle % Revolution) * 4) \div Revolution
        x == Cos4[q + 1] * def.orbitVis
        zOrb == Sin4[q + 1] * def.orbitVis
    IN  VAdd(pp, Vec(x, RoundDiv(def.sinInc * zOrb, 1000),
                     RoundDiv(def.cosInc * zOrb, 1000)))

(***************************************************************************)
(* Simulation clock                                                        *)
(***************************************************************************)
\* doubling without the cap at the maximum speed
increaseSpeedUncapped(v) == IF v = 0 THEN MinSpeed ELSE v * 2

\* doubling without the resume-from-pause case
increaseSpeedDoubling(v) == Min(v * 2, MaxSpeed)

\* v => v === 0 ? 0.125 : Math.min(v * 2, 64)
increaseSpeedFn(v) == IF v = 0 THEN MinSpeed ELSE Min(v * 2, MaxSpeed)

\* halving with a floor at the minimum speed instead of the snap to zero
decreaseSpeedFloored(v) == Max(v \div 2, MinSpeed)

\* v => v <= 0.125 ? 0 : v / 2
decreaseSpeedFn(v) == IF v <= MinSpeed THEN 0 ELSE v \div 2

Event(op, hit) == [op |-> op, hit |-> hit]

\* what a handler of the running scene leaves alone: the subscriptions, the
\* frame request, the App's fetch state, the solver's record, the objects of
\* the scene, the moons and the proxy radii
UnchangedHost ==
    UNCHANGED <<listeners, animationId, destroyed, appPlanets, loading, error,
                fetch, kepler, scene, moons, hitRadius>>

UnchangedScene ==
    /\ UNCHANGED <<meanAnomaly, camera, target, controlsEnabled, zoomAnim,
                   hoveredPlanet, currentHoveredGlow, glowOpacity,
                   currentHoveredBelt, beltMat, cursor, navInterval,
                   selectedPlanet, focusCount, navSteps, timers>>
    /\ UnchangedHost

increaseSpeed ==
    /\ simulationSpeed' = increaseSpeedFn(simulationSpeed)
    /\ emitted' = <<>>
    /\ lastEvent' = Event("increaseSpeed", NoHit)
    /\ UnchangedScene

decreaseSpeed ==
    /\ simulationSpeed' = decreaseSpeedFn(simulationSpeed)
    /\ emitted' = <<>>
    /\ lastEvent' = Event("decreaseSpeed", NoHit)
    /\ UnchangedScene

resetSpeed ==
    /\ simulationSpeed' = DefaultSpeed
    /\ emitted' = <<>>
    /\ lastEvent' = Event("resetSpeed", NoHit)
    /\ UnchangedScene

(***************************************************************************)
(* Camera transition animator and the frame tick                           *)
(***************************************************************************)
\* the cubic ease-in-out curve, as a numerator over 15625
Ease(t) ==
    IF t < 50 THEN (t * t * t) \div 16
    ELSE 15625 - ((200 - 2 * t) * (200 - 2 * t) * (200 - 2 * t)) \div 128

\* Vector3.lerpVectors(v1, v2, alpha) with alpha = ease / 15625
lerpVectors(v1, v2, ease) ==
    Vec(v1[1] + RoundDiv((v2[1] - v1[1]) * ease, 15625),
        v1[2] + RoundDiv((v2[2] - v1[2]) * ease, 15625),
        v1[3] + RoundDiv((v2[3] - v1[3]) * ease, 15625))

\* a step of 0.08 per tick
AdvanceProgressCoarse(t) == Min(t + 2 * ProgressStep, ProgressEnd)

\* a.t = Math.min(a.t + 0.04, 1)
AdvanceProgress(t) == Min(t + ProgressStep, ProgressEnd)

\* completion tested with > instead of >=
TransitionDoneLate(t) == t > ProgressEnd

\* if (a.t >= 1)
TransitionDone(t) == t >= ProgressEnd

\* an update that lags: it leaves the camera halfway between where it was
\* and where it has been put
ControlsUpdateLagging(cam, tgt) ==
    Vec(RoundDiv(camera[1] + cam[1], 2), RoundDiv(camera[2] + cam[2], 2),
        RoundDiv(camera[3] + cam[3], 2))

\* OrbitControls.update(): keeps the camera on the ray from the target through
\* its position, at a distance clamped to [minDistance, maxDistance]; a camera
\* on the target itself is put minDistance above it
ControlsUpdate(cam, tgt) ==
    LET offset == VSub(cam, tgt)
    IN  IF offset = Origin THEN VAdd(tgt, Vec(0, minDistance, 0))
        ELSE IF LengthSq(offset) < minDistance * minDistance
             THEN VAdd(tgt, SetLength(offset, minDistance))
        ELSE IF LengthSq(offset) > maxDistance * maxDistance
             THEN VAdd(tgt, SetLength(offset, maxDistance))
        ELSE cam

\* an angle that advances by the body's speed whatever the simulation speed
AdvanceAngleUnscaled(angle, bodySpeed, speed) ==
    (angle + bodySpeed * MinSpeed) % Revolution

\* obj.meanAnomaly += obj.speed * speed, obj.angle += obj.speed * speed; the
\* positions have the period of a revolution, which the model keeps
AdvanceAngle(angle, bodySpeed, speed) == (angle + bodySpeed * speed) % Revolution

\* the pointer radius of a proxy on screen, the half height of a canvas 1080
\* pixels high, and the tangent (in thousandths) of half the camera's 55
\* degree field of view
HIT_PX == 30
HalfScreenH == 540
TanHalfFov == 521

\* a proxy radius with a floor at the proxy's own geometry (HIT_RADIUS = 5)
HitRadiusFloored(dist) ==
    Max(25, RoundDiv(HIT_PX * dist * TanHalfFov, HalfScreenH * 1000))

\* hitWorldR = (HIT_PX / halfH) * dist * tanHalfFov
HitRadius(dist) == RoundDiv(HIT_PX * dist * TanHalfFov, HalfScreenH * 1000)

\* hitMesh.scale of every rescaled proxy (planets, Sun, comets), for the
\* camera at cam and the bodies at their positions
Rescale(cam, anomalies, names) ==
    [n \in names |-> HitRadius(DistanceTo(cam, HitPosition(n, anomalies)))]

\* the parent position of the frame before
ParentPositionStale(def, before, after) == HitPosition(def.parentName, before)

\* obj.parentPlanetObj.mesh.position, read in the moons loop: the planets
\* loop of the same frame has already set it
ParentPosition(def, before, after) == HitPosition(def.parentName, after)

\* the moons loop of animate
AdvanceMoons(ms, before, after, speed) ==
    [m \in DOMAIN ms |->
        LET def == MoonDef(m)
            angle == AdvanceAngle(ms[m].angle, MoonSpeed(def), speed)
            pp == ParentPosition(def, before, after)
        IN  [angle |-> angle, position |-> MoonPosition(def, angle, pp),
             orbitLine |-> pp]]

animate ==
    /\ animationId = "requested"
    /\ meanAnomaly' = [n \in DOMAIN meanAnomaly |->
            AdvanceAngle(meanAnomaly[n], PlanetSpeed(PlanetOf(n)), simulationSpeed)]
    /\ hitRadius' = Rescale(camera, meanAnomaly', DOMAIN hitRadius)
    /\ moons' = AdvanceMoons(moons, meanAnomaly, meanAnomaly', simulationSpeed)
    /\ IF zoomAnim # NULL
       THEN LET t == AdvanceProgress(zoomAnim.t)
                ease == Ease(t)
                tgt == lerpVectors(zoomAnim.fromTarget, zoomAnim.toTarget, ease)
            IN  /\ target' = tgt
                /\ camera' = ControlsUpdate(
                       lerpVectors(zoomAnim.fromCam, zoomAnim.toCam, ease), tgt)
                /\ IF TransitionDone(t)
                   THEN zoomAnim' = NULL /\ controlsEnabled' = TRUE
                   ELSE zoomAnim' = [zoomAnim EXCEPT !.t = t]
                        /\ UNCHANGED controlsEnabled
       ELSE /\ camera' = ControlsUpdate(camera, target)
            /\ UNCHANGED <<target, zoomAnim, controlsEnabled>>
    /\ emitted' = <<>>
    /\ lastEvent' = Event("animate", NoHit)
    /\ UNCHANGED <<simulationSpeed, hoveredPlanet, currentHoveredGlow,
                   glowOpacity, currentHoveredBelt, beltMat, cursor,
                   navInterval, selectedPlanet, focusCount, navSteps, timers>>
    /\ UNCHANGED <<listeners, animationId, destroyed, appPlanets, loading,
                   error, fetch, kepler, scene>>

(***************************************************************************)
(* Hit-test index                                                          *)
(***************************************************************************)
\* The owners hits[0] can have for some pointer position, NoHit standing for
\* an empty hit list.  The Oort proxy is a DoubleSide sphere around the
\* origin that encloses every other proxy: from inside it every ray meets
\* it, from outside a ray meets it before anything else or meets nothing.
\* A FrontSide sphere proxy is not met from its own centre, and the flat belt
\* ring is not met from within its plane.
PossibleHits(cam, anomalies) ==
    IF LengthSq(cam) < OortRadius * OortRadius
    THEN {OORT_CLOUD_PLANET.name}
         \cup {n \in GlowNames : HitPosition(n, anomalies) # cam}
         \cup {n \in {ASTEROID_BELT_PLANET.name} : cam[2] # 0}
    ELSE {OORT_CLOUD_PLANET.name, NoHit}

\* Raycaster.intersectObjects(hitMeshes), ray by ray.  The pointer ray starts
\* at the camera and runs along dir; every proxy is tested and the hits are
\* sorted by distance.
Dot(a, b) == a[1] * b[1] + a[2] * b[2] + a[3] * b[3]
Cross(a, b) == Vec(a[2] * b[3] - a[3] * b[2], a[3] * b[1] - a[1] * b[3],
                   a[1] * b[2] - a[2] * b[1])

\* Vector3.length of a vector whose squared length exceeds the integer range:
\* the components are scaled down first
LongLength(v) ==
    LET mx == Max(Abs(v[1]), Max(Abs(v[2]), Abs(v[3])))
        s == (mx \div 26000) + 1
    IN  s * Sqrt(LengthSq(Vec(RoundDiv(v[1], s), RoundDiv(v[2], s),
                              RoundDiv(v[3], s))))

\* the ring proxy of the belt: RingGeometry(innerRadius, outerRadius)
BeltInnerRadius == getOrbitRadius(22)
BeltOuterRadius == getOrbitRadius(32)

\* the order of the proxies in hitMeshes
HitOrder ==
    [n \in HitNames |->
        IF n \in PlanetNames
        THEN CHOOSE i \in 1..Len(planets) : planets[i].name = n
        ELSE IF n = ASTEROID_BELT_PLANET.name THEN Len(planets) + 1
        ELSE IF n = OORT_CLOUD_PLANET.name THEN Len(planets) + 2
        ELSE Len(planets) + 3]

Hit(owner, distance) == [owner |-> owner, distance |-> distance]

\* a FrontSide sphere proxy around centre with radius r: met on its near
\* face, and only by rays that start outside it
SphereHits(owner, cam, dir, centre, r) ==
    LET w == VSub(centre, cam)
        len == LongLength(dir)
        along == RoundDiv(Dot(w, dir), len)
        perp == LongLength(Cross(w, dir)) \div len
    IN  IF along > 0 /\ perp <= r /\ LongLength(w) > r
        THEN {Hit(owner, along - Sqrt(r * r - perp * perp))}
        ELSE {}

\* the DoubleSide sphere proxy of the Oort cloud, around the origin: met on
\* its near and on its far face
OortHits(cam, dir) ==
    LET len == LongLength(dir)
        along == RoundDiv(Dot(VSub(Origin, cam), dir), len)
        disc == along * along - LengthSq(cam) + OortRadius * OortRadius
    IN  IF disc < 0 THEN {}
        ELSE {Hit(OORT_CLOUD_PLANET.name, t) :
                t \in {u \in {along - Sqrt(disc), along + Sqrt(disc)} : u > 0}}

\* the DoubleSide ring proxy of the belt, flat in the plane y = 0
BeltHits(cam, dir) ==
    IF dir[2] = 0 \/ cam[2] = 0 \/ (cam[2] > 0) = (dir[2] > 0) THEN {}
    ELSE LET x == cam[1] + RoundDiv(dir[1] * Abs(cam[2]), Abs(dir[2]))
             z == cam[3] + RoundDiv(dir[3] * Abs(cam[2]), Abs(dir[2]))
             rho == LongLength(Vec(x, 0, z))
         IN  IF rho >= BeltInnerRadius /\ rho <= BeltOuterRadius
             THEN {Hit(ASTEROID_BELT_PLANET.name,
                       RoundDiv(Abs(cam[2]) * LongLength(dir), Abs(dir[2])))}
             ELSE {}

\* every intersection of the ray with a proxy
RayHits(cam, dir, anomalies) ==
    UNION {SphereHits(n, cam, dir, HitPosition(n, anomalies), hitRadius[n]) :
             n \in GlowNames}
      \cup OortHits(cam, dir) \cup BeltHits(cam, dir)

\* hits[0]: the nearest intersection, the earlier proxy of hitMeshes first
\* among equally distant ones
FirstOwner(hs) ==
    IF hs = {} THEN NoHit
    ELSE (CHOOSE h \in hs :
            \A g \in hs : \/ h.distance < g.distance
                          \/ /\ h.distance = g.distance
                             /\ HitOrder[h.owner] <= HitOrder[g.owner]).owner

\* where the pointer is: on the centre of a body, on the middle of the belt
\* ring, or on the sky away from the origin
BeltPoint == Vec((BeltInnerRadius + BeltOuterRadius) \div 2, 0, 0)
Sky == "sky"
Aims == GlowNames \cup {ASTEROID_BELT_PLANET.name, Sky}

\* the direction of the pointer ray (Raycaster.setFromCamera)
AimDir(aim, cam, anomalies) ==
    IF aim = Sky THEN (IF cam = Origin THEN Vec(0, 1, 0) ELSE cam)
    ELSE IF aim = ASTEROID_BELT_PLANET.name THEN VSub(BeltPoint, cam)
    ELSE VSub(HitPosition(aim, anomalies), cam)

\* hits[0] for the pointer on aim
Pick(aim, cam, anomalies) ==
    FirstOwner(RayHits(cam, AimDir(aim, cam, anomalies), anomalies))

\* data['glowMesh'] is set by makeHitMesh, data['isAsteroidBelt'] by the ring
HasGlowMesh(hit) == hit \in GlowNames
IsAsteroidBelt(hit) == hit = ASTEROID_BELT_PLANET.name

(***************************************************************************)
(* Host application (App)                                                  *)
(***************************************************************************)
PlanetSelected(planet) == [type |-> "planetSelected", planet |-> planet]
CloseInfo == [type |-> "closeInfo", planet |-> NULL]

\* a host whose onInfoClosed leaves the selection
AppHandleKept(selected, event) ==
    IF event.type = "planetSelected" THEN event.planet ELSE selected

\* App.onPlanetSelected / App.onInfoClosed
AppHandle(selected, event) ==
    IF event.type = "planetSelected" THEN event.planet ELSE NULL

RECURSIVE AppDeliver(_, _)
AppDeliver(selected, events) ==
    IF events = <<>> THEN selected
    ELSE AppDeliver(AppHandle(selected, Head(events)), Tail(events))

(***************************************************************************)
(* Interaction controller                                                  *)
(***************************************************************************)
BeltNormal == [color |-> "0x998877", size |-> 35]
BeltHighlight == [color |-> "0xddccaa", size |-> 55]

\* the body shown in the tooltip
Tooltip(planet) == [name |-> planet.name_sr, color |-> planet.color]

\* the gate with the threshold distance itself left open
OortGatedBelow(planet, cam) ==
    planet.is_oort_cloud /\ LengthSq(cam) < OortGate * OortGate

\* the Oort cloud is shown and clickable only past the distance threshold
OortGated(planet, cam) ==
    planet.is_oort_cloud /\ LengthSq(cam) <= OortGate * OortGate

\* the new hover without the reset of the previous one
HoverGlowKept(hit) ==
    IF HasGlowMesh(hit) THEN [glowOpacity EXCEPT ![hit] = HoverOpacity]
                        ELSE glowOpacity

\* the halo opacities after the reset of the previous hover and the new hover
HoverGlow(hit) ==
    LET reset == IF currentHoveredGlow # UNDEFINED
                 THEN [glowOpacity EXCEPT ![currentHoveredGlow] = 0]
                 ELSE glowOpacity
    IN  IF HasGlowMesh(hit) THEN [reset EXCEPT ![hit] = HoverOpacity] ELSE reset

\* the belt material without the restore of a highlighted belt
HoverBeltKept(hit) ==
    IF ~HasGlowMesh(hit) /\ IsAsteroidBelt(hit) THEN BeltHighlight ELSE beltMat

\* the belt material after the reset of the previous hover and the new hover
HoverBelt(hit) ==
    IF ~HasGlowMesh(hit) /\ IsAsteroidBelt(hit) THEN BeltHighlight
    ELSE IF currentHoveredBelt THEN BeltNormal
    ELSE beltMat

onCanvasMouseMove(hit) ==
    /\ "mousemove" \in listeners
    /\ hit \in PossibleHits(camera, meanAnomaly)
    /\ glowOpacity' = HoverGlow(hit)
    /\ currentHoveredGlow' = IF HasGlowMesh(hit) THEN hit ELSE UNDEFINED
    /\ currentHoveredBelt' = (~HasGlowMesh(hit) /\ IsAsteroidBelt(hit))
    /\ beltMat' = HoverBelt(hit)
    /\ hoveredPlanet' = IF hit # NoHit /\ ~OortGated(PlanetOf(hit), camera)
                        THEN Tooltip(PlanetOf(hit))
                        ELSE NULL
    /\ cursor' = IF hit # NoHit THEN "pointer" ELSE "default"
    /\ emitted' = <<>>
    /\ lastEvent' = Event("mousemove", hit)
    /\ UNCHANGED <<simulationSpeed, meanAnomaly, camera, target,
                   controlsEnabled, zoomAnim, navInterval, selectedPlanet,
                   focusCount, navSteps, timers>>
    /\ UnchangedHost

\* a click that emits the tooltip record instead of the body record
ClickEventsTooltip(hit, cam) ==
    IF hit # NoHit /\ ~OortGated(PlanetOf(hit), cam)
    THEN <<PlanetSelected(Tooltip(PlanetOf(hit)))>>
    ELSE <<>>

\* the events onCanvasClick emits
ClickEvents(hit, cam) ==
    IF hit # NoHit /\ ~OortGated(PlanetOf(hit), cam)
    THEN <<PlanetSelected(PlanetOf(hit))>>
    ELSE <<>>

onCanvasClick(hit) ==
    /\ "click" \in listeners
    /\ hit \in PossibleHits(camera, meanAnomaly)
    /\ emitted' = ClickEvents(hit, camera)
    /\ selectedPlanet' = AppDeliver(selectedPlanet, ClickEvents(hit, camera))
    /\ lastEvent' = Event("click", hit)
    /\ UNCHANGED <<simulationSpeed, meanAnomaly, camera, target,
                   controlsEnabled, zoomAnim, hoveredPlanet,
                   currentHoveredGlow, glowOpacity, currentHoveredBelt,
                   beltMat, cursor, navInterval, focusCount, navSteps, timers>>
    /\ UnchangedHost

\* VISUAL_SIZES[planet.name] ?? 2, in tenths
ZoomVisualRadius(name) ==
    IF name \in DOMAIN VISUAL_SIZES THEN VISUAL_SIZES[name] ELSE 20

\* the target distance without the floor at the minimum camera distance
ZoomDistUnfloored(planet) ==
    IF planet.is_asteroid_belt THEN BeltZoom
    ELSE IF planet.is_comet THEN CometZoom
    ELSE ZoomVisualRadius(planet.name) * 4

\* the class-dependent target distance of a focus gesture
ZoomDist(planet) ==
    IF planet.is_asteroid_belt THEN BeltZoom
    ELSE IF planet.is_comet THEN CometZoom
    ELSE Max(ZoomVisualRadius(planet.name) * 4, minDistance + ZoomFloorMargin)

\* a transition that starts at the initial camera and target instead of the
\* current ones
NewZoomAnimFromHome(hit, cam, tgt, anomalies) ==
    LET targetPos == HitPosition(hit, anomalies)
    IN  [fromCam |-> Vec(0, 2250, 5500),
         toCam |-> AddScaledDir(targetPos, VSub(cam, targetPos), ZoomDist(PlanetOf(hit))),
         fromTarget |-> Origin,
         toTarget |-> targetPos,
         t |-> 0]

\* the Camera Transition a double-click on hit creates
NewZoomAnim(hit, cam, tgt, anomalies) ==
    LET targetPos == HitPosition(hit, anomalies)
    IN  [fromCam |-> cam,
         toCam |-> AddScaledDir(targetPos, VSub(cam, targetPos), ZoomDist(PlanetOf(hit))),
         fromTarget |-> tgt,
         toTarget |-> targetPos,
         t |-> 0]

\* a double-click focuses every owner but the Oort cloud
Focusable(hit) == hit # NoHit /\ ~PlanetOf(hit).is_oort_cloud

onCanvasDblClick(hit) ==
    /\ "dblclick" \in listeners
    /\ hit \in PossibleHits(camera, meanAnomaly)
    /\ lastEvent' = Event("dblclick", hit)
    /\ IF Focusable(hit)
       THEN /\ focusCount < MaxFocus
            /\ focusCount' = focusCount + 1
            /\ hoveredPlanet' = NULL
            /\ emitted' = <<CloseInfo>>
            /\ selectedPlanet' = AppDeliver(selectedPlanet, <<CloseInfo>>)
            /\ controlsEnabled' = FALSE
            /\ zoomAnim' = NewZoomAnim(hit, camera, target, meanAnomaly)
       ELSE /\ emitted' = <<>>
            /\ UNCHANGED <<focusCount, hoveredPlanet, selectedPlanet,
                           controlsEnabled, zoomAnim>>
    /\ UNCHANGED <<simulationSpeed, meanAnomaly, camera, target,
                   currentHoveredGlow, glowOpacity, currentHoveredBelt,
                   beltMat, cursor, navInterval, navSteps, timers>>
    /\ UnchangedHost

\* a variant of onControlsStart that closes the info panel as the wheel does
ControlsStartClosesInfo == <<CloseInfo>>

\* the events onControlsStart emits
ControlsStartEvents == <<>>

\* onControlsStart: OrbitControls dispatches 'start' when a pointer drag
\* begins; the drag then takes the camera to a position the controls allow
DragPositions ==
    { Vec(0, 2250, 5500), Vec(0, 5400, 7200), Vec(0, 5400, 7201),
      Vec(0, 7500, 10000) }

onControlsStart(pos) ==
    /\ "start" \in listeners
    /\ controlsEnabled
    /\ pos # camera
    /\ LengthSq(VSub(pos, target)) >= minDistance * minDistance
    /\ LengthSq(VSub(pos, target)) <= maxDistance * maxDistance
    /\ hoveredPlanet' = NULL
    /\ camera' = pos
    /\ emitted' = ControlsStartEvents
    /\ selectedPlanet' = AppDeliver(selectedPlanet, ControlsStartEvents)
    /\ lastEvent' = Event("controlsStart", NoHit)
    /\ UNCHANGED <<simulationSpeed, meanAnomaly, target, controlsEnabled,
                   zoomAnim, currentHoveredGlow, glowOpacity,
                   currentHoveredBelt, beltMat, cursor, navInterval,
                   focusCount, navSteps, timers>>
    /\ UnchangedHost

(***************************************************************************)
(* Continuous navigation (press-and-hold buttons)                          *)
\* the distance scales of one wheel notch, in per cent (zoom in, zoom out)
WheelScales == {95, 105}

\* OrbitControls' wheel dolly: the distance to the target scaled and clamped
WheelDolly(cam, tgt, scale) ==
    LET o == VSub(cam, tgt)
    IN  ControlsUpdate(VAdd(tgt, SetLength(o, RoundDiv(Length(o) * scale, 100))),
                       tgt)

\* the events onCanvasZoom emits
ZoomEvents == <<CloseInfo>>

\* a wheel notch on the canvas: OrbitControls, while enabled, dispatches
\* 'start' (onControlsStart hides the tooltip) and dollies the camera; then
\* onCanvasZoom emits closeInfo
onCanvasZoom(scale) ==
    /\ "wheel" \in listeners
    /\ navSteps < MaxNavSteps
    /\ navSteps' = navSteps + 1
    /\ hoveredPlanet' = IF controlsEnabled /\ "start" \in listeners
                        THEN NULL ELSE hoveredPlanet
    /\ camera' = IF controlsEnabled THEN WheelDolly(camera, target, scale)
                 ELSE camera
    /\ emitted' = ZoomEvents
    /\ selectedPlanet' = AppDeliver(selectedPlanet, ZoomEvents)
    /\ lastEvent' = Event("wheel", NoHit)
    /\ UNCHANGED <<simulationSpeed, meanAnomaly, target, controlsEnabled,
                   zoomAnim, currentHoveredGlow, glowOpacity,
                   currentHoveredBelt, beltMat, cursor, navInterval,
                   focusCount, timers>>
    /\ UnchangedHost

\* the numbers of simultaneous contacts of a touchstart
TouchCounts == {1, 2}

\* the events onCanvasTouchStart emits
TouchStartEvents(touches) == IF touches >= 2 THEN <<CloseInfo>> ELSE <<>>

\* a touchstart on the canvas: OrbitControls, while enabled, dispatches
\* 'start' (onControlsStart hides the tooltip); then onCanvasTouchStart emits
\* closeInfo for two or more contacts
onCanvasTouchStart(touches) ==
    /\ "touchstart" \in listeners
    /\ hoveredPlanet' = IF controlsEnabled /\ "start" \in listeners
                        THEN NULL ELSE hoveredPlanet
    /\ emitted' = TouchStartEvents(touches)
    /\ selectedPlanet' = AppDeliver(selectedPlanet, TouchStartEvents(touches))
    /\ lastEvent' = [op |-> "touchstart", hit |-> NoHit, touches |-> touches]
    /\ UNCHANGED <<simulationSpeed, meanAnomaly, camera, target,
                   controlsEnabled, zoomAnim, currentHoveredGlow, glowOpacity,
                   currentHoveredBelt, beltMat, cursor, navInterval,
                   focusCount, navSteps, timers>>
    /\ UnchangedHost

(***************************************************************************)
\* the case labels of the switch in startNav
NavActions ==
    {"rotateLeft", "rotateRight", "rotateUp", "rotateDown", "zoomIn",
     "zoomOut", "panLeft", "panRight", "panUp", "panDown"}

\* the actions the model presses
PressedActions == {"rotateLeft", "zoomOut", "panUp"}

\* rotation of (u, v) by 0.04 rad, taken sign times: cos 0.04 = 0.9992,
\* sin 0.04 = 0.0400
RotU(u, v, sign) == IF sign = 0 THEN u ELSE RoundDiv(u * 9992 + sign * v * 400, 10000)
RotV(u, v, sign) == IF sign = 0 THEN v ELSE RoundDiv(v * 9992 - sign * u * 400, 10000)

\* shiftCameraAngle(sTheta * 0.04, sPhi * 0.04): theta is the angle of the
\* offset around the Y axis, phi its polar angle, kept in [0.05, PI - 0.05]
\* (sin 0.05 = 0.0500, cos 0.05 = 0.9988)
shiftCameraAngle(cam, tgt, sTheta, sPhi) ==
    LET o == VSub(cam, tgt)
        r == Length(o)
        h == Sqrt(o[1] * o[1] + o[3] * o[3])
        y1 == RotU(o[2], h, -sPhi)
        h1 == RotV(o[2], h, -sPhi)
        hMin == RoundDiv(r * 500, 10000)
        yCap == RoundDiv(r * 9988, 10000)
        y2 == IF h1 < hMin THEN (IF y1 >= 0 THEN yCap ELSE -yCap) ELSE y1
        h2 == IF h1 < hMin THEN hMin ELSE h1
        dx == IF h = 0 THEN 0 ELSE o[1]
        dz == IF h = 0 THEN 10000 ELSE o[3]
        hd == IF h = 0 THEN 10000 ELSE h
        x3 == RoundDiv(h2 * RotU(dx, dz, sTheta), hd)
        z3 == RoundDiv(h2 * RotV(dx, dz, sTheta), hd)
    IN  <<ControlsUpdate(VAdd(tgt, Vec(x3, y2, z3)), tgt), tgt>>

\* dollyCamera(factor / 100)
dollyCamera(cam, tgt, factor) ==
    LET o == VSub(cam, tgt)
        dist == RoundDiv(Length(o) * factor, 100)
    IN  IF dist >= minDistance /\ dist <= maxDistance
        THEN <<ControlsUpdate(VAdd(tgt, SetLength(o, dist)), tgt), tgt>>
        ELSE <<cam, tgt>>

\* panCamera(dx, dy): the camera's local X and Y axes are those of a camera
\* at cam looking at tgt with up = (0, 1, 0); the step is 0.008 of the distance
panCamera(cam, tgt, dx, dy) ==
    LET o == VSub(cam, tgt)
        r == Length(o)
        h == Sqrt(o[1] * o[1] + o[3] * o[3])
        speed == RoundDiv(r * 8, 1000)
        right == IF h = 0 THEN Vec(speed, 0, 0)
                 ELSE Vec(RoundDiv(o[3] * speed, h), 0, RoundDiv(-o[1] * speed, h))
        upH == IF r = 0 THEN Origin
               ELSE Vec(RoundDiv(-o[1] * o[2], r), RoundDiv(h * h, r),
                        RoundDiv(-o[2] * o[3], r))
        up == IF h = 0 THEN Vec(0, 0, -speed)
              ELSE Vec(RoundDiv(upH[1] * speed, h), RoundDiv(upH[2] * speed, h),
                       RoundDiv(upH[3] * speed, h))
        offset == Vec(dx * right[1] + dy * up[1], dx * right[2] + dy * up[2],
                      dx * right[3] + dy * up[3])
    IN  <<ControlsUpdate(VAdd(cam, offset), VAdd(tgt, offset)), VAdd(tgt, offset)>>

\* the step closure of startNav: the camera position and orbit target after it
NavStep(action, cam, tgt) ==
    CASE action = "rotateLeft" -> shiftCameraAngle(cam, tgt, -1, 0)
      [] action = "rotateRight" -> shiftCameraAngle(cam, tgt, 1, 0)
      [] action = "rotateUp" -> shiftCameraAngle(cam, tgt, 0, -1)
      [] action = "rotateDown" -> shiftCameraAngle(cam, tgt, 0, 1)
      [] action = "zoomIn" -> dollyCamera(cam, tgt, 97)
      [] action = "zoomOut" -> dollyCamera(cam, tgt, 103)
      [] action = "panLeft" -> panCamera(cam, tgt, -1, 0)
      [] action = "panRight" -> panCamera(cam, tgt, 1, 0)
      [] action = "panUp" -> panCamera(cam, tgt, 0, 1)
      [] action = "panDown" -> panCamera(cam, tgt, 0, -1)
      [] OTHER -> <<cam, tgt>>

UnchangedByNav ==
    /\ UNCHANGED <<simulationSpeed, meanAnomaly, controlsEnabled, zoomAnim,
                   hoveredPlanet, currentHoveredGlow, glowOpacity,
                   currentHoveredBelt, beltMat, cursor, selectedPlanet,
                   focusCount>>
    /\ UnchangedHost

\* clearInterval(handle): the timer table without the timer of the handle
clearInterval(ts, handle) ==
    IF \E i \in 1..Len(ts) : ts[i] = handle
    THEN LET i == CHOOSE k \in 1..Len(ts) :
                      ts[k] = handle /\ \A j \in 1..(k - 1) : ts[j] # handle
         IN  SubSeq(ts, 1, i - 1) \o SubSeq(ts, i + 1, Len(ts))
    ELSE ts

\* stopNav() without the clearInterval
TimersKept(ts, handle) == ts

\* the timer table after stopNav()
TimersAfterStopNav(ts, handle) ==
    IF handle # UNDEFINED THEN clearInterval(ts, handle) ELSE ts

startNav(action) ==
    /\ navSteps < MaxNavSteps
    /\ navSteps' = navSteps + 1
    /\ camera' = NavStep(action, camera, target)[1]
    /\ target' = NavStep(action, camera, target)[2]
    /\ navInterval' = action
    /\ timers' = Append(TimersAfterStopNav(timers, navInterval), action)
    /\ emitted' = <<>>
    /\ lastEvent' = Event("startNav", NoHit)
    /\ UnchangedByNav

\* the interval timer fires
navTimer ==
    /\ navSteps < MaxNavSteps
    /\ navSteps' = navSteps + 1
    /\ \E i \in 1..Len(timers) :
          /\ camera' = NavStep(timers[i], camera, target)[1]
          /\ target' = NavStep(timers[i], camera, target)[2]
    /\ emitted' = <<>>
    /\ lastEvent' = Event("navTimer", NoHit)
    /\ UNCHANGED <<navInterval, timers>>
    /\ UnchangedByNav

stopNav ==
    /\ navInterval' = UNDEFINED
    /\ timers' = TimersAfterStopNav(timers, navInterval)
    /\ emitted' = <<>>
    /\ lastEvent' = Event("stopNav", NoHit)
    /\ UNCHANGED <<camera, target, navSteps>>
    /\ UnchangedByNav

(***************************************************************************)
(* Teardown                                                                *)
(***************************************************************************)
\* the subscriptions initScene and ngAfterViewInit register
RegisteredListeners ==
    {"click", "dblclick", "mousemove", "wheel", "touchstart", "start", "resize"}

\* a teardown that forgets the wheel subscription
RemovedListenersButWheel ==
    {"resize", "click", "dblclick", "mousemove", "touchstart", "start"}

\* the subscriptions ngOnDestroy removes
RemovedListeners ==
    {"resize", "click", "dblclick", "mousemove", "wheel", "touchstart", "start"}

\* ngOnDestroy: cancelAnimationFrame, stopNav, removeEventListener for each
\* subscription, renderer.dispose; Angular calls it once
ngOnDestroy ==
    /\ ~destroyed
    /\ destroyed' = TRUE
    /\ animationId' = "cancelled"
    /\ navInterval' = UNDEFINED
    /\ timers' = TimersAfterStopNav(timers, navInterval)
    /\ listeners' = listeners \ RemovedListeners
    /\ emitted' = <<>>
    /\ lastEvent' = Event("ngOnDestroy", NoHit)
    /\ UNCHANGED <<simulationSpeed, meanAnomaly, camera, target,
                   controlsEnabled, zoomAnim, hoveredPlanet,
                   currentHoveredGlow, glowOpacity, currentHoveredBelt,
                   beltMat, cursor, selectedPlanet, focusCount, navSteps,
                   appPlanets, loading, error, fetch, kepler, scene, moons,
                   hitRadius>>

(***************************************************************************)
(* Specification                                                           *)
(***************************************************************************)

\* startM = Math.random() * 2 PI, on the quarter turns of the lattice
StartAnomalies == {0, 8}

\* the moons at their start angle around their parents
PlaceMoons(defs, anomalies) ==
    [m \in {defs[i].name : i \in 1..Len(defs)} |->
        LET pp == HitPosition(MoonDef(m).parentName, anomalies)
        IN  [angle |-> 0, position |-> MoonPosition(MoonDef(m), 0, pp),
             orbitLine |-> pp]]

Init ==
    /\ simulationSpeed = DefaultSpeed
    /\ meanAnomaly \in {f \in [AnomalyNames -> StartAnomalies] :
                            f[COMET_PLANET.name] = 0}
    /\ scene = BuildScene(planets)
    /\ moons = PlaceMoons(scene.moonObjects, meanAnomaly)
    /\ camera = Vec(0, 2250, 5500)
    /\ hitRadius = Rescale(camera, meanAnomaly, GlowNames)
    /\ target = Origin
    /\ controlsEnabled = TRUE
    /\ zoomAnim = NULL
    /\ hoveredPlanet = NULL
    /\ currentHoveredGlow = UNDEFINED
    /\ glowOpacity = [n \in GlowNames |-> 0]
    /\ currentHoveredBelt = FALSE
    /\ beltMat = BeltNormal
    /\ cursor = ""
    /\ navInterval = UNDEFINED
    /\ selectedPlanet = NULL
    /\ emitted = <<>>
    /\ lastEvent = Event("ngAfterViewInit", NoHit)
    /\ focusCount = 0
    /\ navSteps = 0
    /\ timers = <<>>
    /\ listeners = RegisteredListeners
    /\ animationId = "requested"
    /\ destroyed = FALSE
    /\ appPlanets = planets
    /\ loading = FALSE
    /\ error = NULL
    /\ fetch = "done"
    /\ kepler = NULL

Hits == HitNames \cup {NoHit}

\* the simulation clock: speed controls and frame ticks
NextClock ==
    \/ increaseSpeed
    \/ decreaseSpeed
    \/ resetSpeed
    \/ animate

SpecClock == Init /\ [][NextClock]_vars

\* picking: pointer moves and clicks, with camera drags and frame ticks
NextPointer ==
    \/ \E hit \in Hits : onCanvasMouseMove(hit)
    \/ \E hit \in Hits : onCanvasClick(hit)
    \/ \E pos \in DragPositions : onControlsStart(pos)
    \/ animate

SpecPointer == Init /\ [][NextPointer]_vars

\* the drag used to leave the initial camera position
ZoomDragPositions == { Vec(0, 5400, 7200) }

\* focus gestures and the camera transition, with camera drags and frame ticks
NextZoom ==
    \/ \E hit \in Hits : onCanvasDblClick(hit)
    \/ \E pos \in ZoomDragPositions : onControlsStart(pos)
    \/ animate

SpecZoom == Init /\ [][NextZoom]_vars

\* the body the focus gestures of SpecTicking aim at
TickingHits == { "Earth" }

\* focus gestures and frame ticks alone
NextTicking ==
    \/ \E hit \in TickingHits : onCanvasDblClick(hit)
    \/ animate

\* animate re-schedules itself with requestAnimationFrame on every frame, so
\* frame ticks keep running
SpecTicking == Init /\ [][NextTicking]_vars /\ WF_vars(animate)

\* the scene right after a double-click on Jupiter from the initial camera,
\* the bodies at perihelion: the transition towards Jupiter is pending with progress 0, the controls are
\* disabled and closeInfo has been emitted; focusCount counts the gestures
\* that follow
InitRefocus ==
    /\ simulationSpeed = DefaultSpeed
    /\ meanAnomaly = [n \in AnomalyNames |-> 0]
    /\ scene = BuildScene(planets)
    /\ moons = PlaceMoons(scene.moonObjects, meanAnomaly)
    /\ camera = Vec(0, 2250, 5500)
    /\ hitRadius = Rescale(camera, meanAnomaly, GlowNames)
    /\ target = Origin
    /\ controlsEnabled = FALSE
    /\ zoomAnim = NewZoomAnim("Jupiter", camera, target, meanAnomaly)
    /\ hoveredPlanet = NULL
    /\ currentHoveredGlow = UNDEFINED
    /\ glowOpacity = [n \in GlowNames |-> 0]
    /\ currentHoveredBelt = FALSE
    /\ beltMat = BeltNormal
    /\ cursor = ""
    /\ navInterval = UNDEFINED
    /\ selectedPlanet = NULL
    /\ emitted = <<CloseInfo>>
    /\ lastEvent = Event("dblclick", "Jupiter")
    /\ focusCount = 0
    /\ navSteps = 0
    /\ timers = <<>>
    /\ listeners = RegisteredListeners
    /\ animationId = "requested"
    /\ destroyed = FALSE
    /\ appPlanets = planets
    /\ loading = FALSE
    /\ error = NULL
    /\ fetch = "done"
    /\ kepler = NULL

\* a second focus gesture at any frame of the pending transition; frame ticks
\* keep running as in SpecTicking
SpecRefocus == InitRefocus /\ [][NextTicking]_vars /\ WF_vars(animate)

\* the double-click gesture as the browser delivers it: click events, and a
\* dblclick event only right after a click, on the same proxy; the pointer is
\* over Earth, the asteroid belt or the Oort cloud alone
NextGesture ==
    \/ \E hit \in TickingHits \cup {ASTEROID_BELT_PLANET.name, OORT_CLOUD_PLANET.name} :
          onCanvasClick(hit)
    \/ /\ lastEvent.op = "click"
       /\ onCanvasDblClick(lastEvent.hit)
    \/ animate


\* focus gestures with the navigation buttons held, released and repeating
NextNav ==
    \/ \E hit \in Hits : onCanvasDblClick(hit)
    \/ \E action \in PressedActions : startNav(action)
    \/ navTimer
    \/ stopNav
    \/ animate

SpecNav == Init /\ [][NextNav]_vars

\* the navigation buttons alone: presses, releases and timer firings
NextNavTimer ==
    \/ \E action \in PressedActions : startNav(action)
    \/ navTimer
    \/ stopNav
    \/ animate

SpecNavTimer == Init /\ [][NextNavTimer]_vars

\* hover and focus on the initial camera
NextFocus ==
    \/ \E hit \in Hits : onCanvasMouseMove(hit)
    \/ \E hit \in Hits : onCanvasDblClick(hit)
    \/ animate

SpecFocus == Init /\ [][NextFocus]_vars

\* drags that take the camera out of the Oort sphere
RayDragPositions == { Vec(0, 7500, 10000) }

\* picking along pointer rays, from camera positions inside and outside the
\* Oort sphere
NextRay ==
    \/ \E aim \in Aims :
          /\ AimDir(aim, camera, meanAnomaly) # Origin
          /\ \E hit \in {Pick(aim, camera, meanAnomaly)} :
                \/ onCanvasMouseMove(hit)
                \/ onCanvasDblClick(hit)
    \/ \E pos \in RayDragPositions : onControlsStart(pos)
    \/ animate

\* the bodies start at perihelion
InitRay == Init /\ meanAnomaly = [n \in AnomalyNames |-> 0]

\* the double-click gesture, the bodies starting at perihelion
SpecGesture == InitRay /\ [][NextGesture]_vars

SpecRay == InitRay /\ [][NextRay]_vars

\* touch and wheel gestures over a hovered or selected body
NextTouch ==
    \/ \E hit \in Hits : onCanvasMouseMove(hit)
    \/ \E hit \in Hits : onCanvasClick(hit)
    \/ \E touches \in TouchCounts : onCanvasTouchStart(touches)
    \/ \E scale \in WheelScales : onCanvasZoom(scale)
    \/ animate

SpecTouch == Init /\ [][NextTouch]_vars

\* the pointer positions of the session that ends with a teardown
TeardownHits == { "Sun" }

\* a session of every kind of gesture that ends with the component destroyed;
\* the navigation buttons belong to the component's view, which is gone once
\* the component is destroyed
NextTeardown ==
    \/ \E hit \in TeardownHits : onCanvasMouseMove(hit)
    \/ \E hit \in TeardownHits : onCanvasDblClick(hit)
    \/ \E touches \in {2} : onCanvasTouchStart(touches)
    \/ \E scale \in {95} : onCanvasZoom(scale)
    \/ ~destroyed /\ \E action \in {"rotateLeft"} : startNav(action)
    \/ navTimer
    \/ animate
    \/ ngOnDestroy

SpecTeardown == InitRay /\ [][NextTeardown]_vars

(***************************************************************************)
(* Kepler solver in fixed-point arithmetic                                 *)
(***************************************************************************)
\* Numbers of the solver are integers in units of 1e-8; every intermediate
\* product stays below 2^31.
Scale == 100000000
Pi == 314159265

\* a * b: the factors are split in halves of four decimal digits
MulFix(a, b) ==
    LET ah == Abs(a) \div 10000
        al == Abs(a) % 10000
        bh == Abs(b) \div 10000
        bl == Abs(b) % 10000
        p == ah * bh + RoundDiv(ah * bl + al * bh + RoundDiv(al * bl, 10000), 10000)
    IN  IF (a < 0) = (b < 0) THEN p ELSE -p

\* the k leading decimal digits of r / b for 0 <= r < b, rounded at the last
RECURSIVE DivDigits(_, _, _, _)
DivDigits(r, b, k, acc) ==
    IF k = 0 THEN acc + (IF 2 * r >= b THEN 1 ELSE 0)
    ELSE DivDigits((r * 10) % b, b, k - 1, acc * 10 + (r * 10) \div b)

\* a / b, by long division
DivFix(a, b) ==
    LET q == (Abs(a) \div Abs(b)) * Scale + DivDigits(Abs(a) % Abs(b), Abs(b), 8, 0)
    IN  IF (a < 0) = (b < 0) THEN q ELSE -q

\* the Taylor series of the sine from the term of degree n on, for |x| <= pi/2
RECURSIVE SinSeries(_, _, _)
SinSeries(x2, term, n) ==
    IF n > 17 THEN 0
    ELSE term + SinSeries(x2, -RoundDiv(MulFix(term, x2), (n + 1) * (n + 2)), n + 2)

\* Math.sin: the argument is reduced to [-pi/2, pi/2] first
Sin(x) ==
    LET y == x % (2 * Pi)
        z == IF y > Pi THEN y - 2 * Pi ELSE y
        w == IF z > Pi \div 2 THEN Pi - z
             ELSE IF z < -(Pi \div 2) THEN -Pi - z
             ELSE z
    IN  SinSeries(MulFix(w, w), w, 1)

\* Math.cos
Cos(x) == Sin(x + Pi \div 2)

\* const iters = e > 0.9 ? 15 : 5
iters(e) == IF e > 9 * (Scale \div 10) THEN 15 ELSE 5

\* for (i < iters) E = E - (E - e sin E - M) / (1 - e cos E)
RECURSIVE NewtonLoop(_, _, _, _)
NewtonLoop(E, M, e, n) ==
    IF n = 0 THEN E
    ELSE NewtonLoop(E - DivFix(E - MulFix(e, Sin(E)) - M, Scale - MulFix(e, Cos(E))),
                    M, e, n - 1)

\* the eccentric anomaly solveKepler computes for an eccentric orbit: the
\* Newton loop seeded with E = M
solveKeplerE(M, e) == NewtonLoop(M, M, e, iters(e))

\* eccentricities of the solver's range: a circle, Mercury, the cap of the
\* planets, comet Encke, the threshold of the iteration count, comet Halley
Eccentricities == {0, 20563593, 70000000, 84823000, 90000000, 96714000}

\* mean anomalies in whole degrees of [0, 2 pi)
MeanAnomalies == {d * 1745329 : d \in 0..359}

\* one call of solveKepler, recorded with its input
solveKeplerCall(M, e) ==
    /\ kepler = NULL
    /\ kepler' = [M |-> M, e |-> e, E |-> solveKeplerE(M, e)]
    /\ emitted' = <<>>
    /\ lastEvent' = Event("solveKepler", NoHit)
    /\ UNCHANGED <<simulationSpeed, meanAnomaly, camera, target,
                   controlsEnabled, zoomAnim, hoveredPlanet,
                   currentHoveredGlow, glowOpacity, currentHoveredBelt,
                   beltMat, cursor, navInterval, selectedPlanet, focusCount,
                   navSteps, timers, listeners, animationId, destroyed,
                   appPlanets, loading, error, fetch, scene, moons, hitRadius>>

\* the solver applied to every input of the grid
SpecKepler ==
    InitRay /\ [][\E M \in MeanAnomalies, e \in Eccentricities :
                    solveKeplerCall(M, e)]_vars

(***************************************************************************)
(* Host application: the data fetch                                        *)
(***************************************************************************)
\* the message App.ngOnInit sets on a failed fetch (without diacritics)
ConnectivityError ==
    [message |-> "Ne mogu da se povezem sa Go API-jem. Provjeri da li je backend pokrenut na http://localhost:8080"]

\* the App's view shows the scene once the fetch has succeeded
SceneShown(isLoading, err) == ~isLoading /\ err = NULL

\* an error handler that leaves the loading flag set
LoadingAfterErrorKept == TRUE

\* loading.set(false) in the error handler
LoadingAfterError == FALSE

\* the scene component is created with the view, its input the App's list:
\* ngAfterViewInit registers the subscriptions, builds the objects, draws the
\* start anomalies, places the moons and runs the first frame, which sizes
\* the proxies and requests the next one
MountScene(shown, list) ==
    IF shown
    THEN /\ listeners' = RegisteredListeners
         /\ animationId' = "requested"
         /\ scene' = BuildScene(list)
         /\ meanAnomaly' \in
               {f \in [{list[i].name : i \in {j \in 1..Len(list) : ~list[j].is_star}}
                         \cup {COMET_PLANET.name} -> StartAnomalies] :
                    f[COMET_PLANET.name] = 0}
         /\ moons' = PlaceMoons(scene'.moonObjects, meanAnomaly')
         /\ hitRadius' = Rescale(camera, meanAnomaly',
                                 {list[i].name : i \in 1..Len(list)}
                                   \cup {COMET_PLANET.name})
    ELSE UNCHANGED <<listeners, animationId, scene, meanAnomaly, moons, hitRadius>>

UnchangedByFetch ==
    UNCHANGED <<simulationSpeed, camera, target, controlsEnabled, zoomAnim,
                hoveredPlanet, currentHoveredGlow, glowOpacity,
                currentHoveredBelt, beltMat, cursor, navInterval,
                selectedPlanet, focusCount, navSteps, timers, destroyed,
                kepler>>

\* getPlanets() delivers a list: the next handler of ngOnInit
fetchNext(list) ==
    /\ fetch = "pending"
    /\ fetch' = "done"
    /\ appPlanets' = list
    /\ loading' = FALSE
    /\ UNCHANGED error
    /\ MountScene(SceneShown(FALSE, error), list)
    /\ emitted' = <<>>
    /\ lastEvent' = Event("fetchNext", NoHit)
    /\ UnchangedByFetch

\* getPlanets() fails: the error handler of ngOnInit
fetchError ==
    /\ fetch = "pending"
    /\ fetch' = "done"
    /\ error' = ConnectivityError
    /\ loading' = LoadingAfterError
    /\ UNCHANGED appPlanets
    /\ MountScene(SceneShown(LoadingAfterError, ConnectivityError), appPlanets)
    /\ emitted' = <<>>
    /\ lastEvent' = Event("fetchError", NoHit)
    /\ UnchangedByFetch

\* the App after construction and ngOnInit: the request is pending and no
\* scene exists yet
InitApp ==
    /\ simulationSpeed = DefaultSpeed
    /\ meanAnomaly = << >>
    /\ moons = << >>
    /\ hitRadius = << >>
    /\ scene = [hitMeshes |-> <<>>, planetObjects |-> <<>>,
                cometObjects |-> <<>>, moonObjects |-> <<>>]
    /\ camera = Vec(0, 2250, 5500)
    /\ target = Origin
    /\ controlsEnabled = TRUE
    /\ zoomAnim = NULL
    /\ hoveredPlanet = NULL
    /\ currentHoveredGlow = UNDEFINED
    /\ glowOpacity = [n \in GlowNames |-> 0]
    /\ currentHoveredBelt = FALSE
    /\ beltMat = BeltNormal
    /\ cursor = ""
    /\ navInterval = UNDEFINED
    /\ selectedPlanet = NULL
    /\ emitted = <<>>
    /\ lastEvent = Event("ngOnInit", NoHit)
    /\ focusCount = 0
    /\ navSteps = 0
    /\ timers = <<>>
    /\ listeners = {}
    /\ animationId = "none"
    /\ destroyed = FALSE
    /\ appPlanets = <<>>
    /\ loading = TRUE
    /\ error = NULL
    /\ fetch = "pending"
    /\ kepler = NULL

\* the fetch and, once the scene is shown, its clock; the speed buttons are
\* part of the scene's view
NextApp ==
    \/ fetchNext(planets)
    \/ fetchError
    \/ animate
    \/ animationId = "requested" /\ increaseSpeed
    \/ animationId = "requested" /\ decreaseSpeed
    \/ animationId = "requested" /\ resetSpeed

\* the request ends: HttpClient delivers the response or an error
SpecApp ==
    InitApp /\ [][NextApp]_vars /\ WF_vars(fetchNext(planets) \/ fetchError)

\* the input lists: up to MaxRecords records with different names
MaxRecords == 3
InputLists ==
    UNION {{l \in [1..n -> InputRecords] :
               \A i, j \in 1..n : l[i].name = l[j].name => i = j} : n \in 0..MaxRecords}

\* the scene built for every input list the API can deliver
NextBuild == \E list \in InputLists : fetchNext(list)

SpecBuild == InitApp /\ [][NextBuild]_vars

(***************************************************************************)
(* Properties of the simulation clock                                      *)
(***************************************************************************)
\* C1: whenever the simulation speed is 0, one call of increaseSpeed sets it
\* to the minimum nonzero speed 0.125, whatever sequence of speed operations
\* led to 0.
ResumeFromPause ==
    [][(simulationSpeed = 0 /\ lastEvent'.op = "increaseSpeed")
          => simulationSpeed' = MinSpeed]_vars

\* increaseSpeed has just resumed a paused simulation
ResumedFromPause ==
    lastEvent.op = "increaseSpeed" /\ simulationSpeed = MinSpeed

\* C2: decreaseSpeed at a speed of at most 0.125 yields exactly 0 and
\* otherwise halves the speed; the speed is never strictly between 0 and
\* 0.125 and never negative.
DecreaseSnapsToZero ==
    /\ [](simulationSpeed = 0 \/ simulationSpeed >= MinSpeed)
    /\ [][lastEvent'.op = "decreaseSpeed"
            => IF simulationSpeed <= MinSpeed
               THEN simulationSpeed' = 0
               ELSE simulationSpeed' * 2 = simulationSpeed]_vars

\* decreaseSpeed has just paused the simulation
DecreasedToZero ==
    lastEvent.op = "decreaseSpeed" /\ simulationSpeed = 0

(***************************************************************************)
(* Properties of picking                                                   *)
(***************************************************************************)
\* C3: a click whose nearest hit is the Oort-cloud proxy emits no
\* planetSelected while the camera is at most 1800 from the origin, and emits
\* planetSelected with the Oort record as soon as it is farther than 1800.
OortClickGate ==
    (lastEvent.op = "click" /\ lastEvent.hit = OORT_CLOUD_PLANET.name)
        => IF LengthSq(camera) <= OortGate * OortGate
           THEN emitted = <<>>
           ELSE emitted = <<PlanetSelected(OORT_CLOUD_PLANET)>>

\* the Oort proxy has been clicked with the camera exactly at the threshold
OortClickedAtThreshold ==
    /\ lastEvent = Event("click", OORT_CLOUD_PLANET.name)
    /\ LengthSq(camera) = OortGate * OortGate
    /\ emitted = <<>>

\* C4: after a pointer move that hits body X the tooltip names X and X's halo
\* has opacity 0.45; after a pointer move that is off every proxy the tooltip
\* is null and every halo, X's included, is back to opacity 0.
HoverThenIdle ==
    /\ (lastEvent.op = "mousemove" /\ lastEvent.hit \in GlowNames)
          => /\ hoveredPlanet = Tooltip(PlanetOf(lastEvent.hit))
             /\ hoveredPlanet.name = PlanetOf(lastEvent.hit).name_sr
             /\ glowOpacity[lastEvent.hit] = HoverOpacity
    /\ (lastEvent.op = "mousemove" /\ lastEvent.hit = NoHit)
          => /\ hoveredPlanet = NULL
             /\ \A n \in GlowNames : glowOpacity[n] = 0

\* the pointer has moved off every proxy and the hover state is idle
PointerOffEveryProxy ==
    /\ lastEvent = Event("mousemove", NoHit)
    /\ hoveredPlanet = NULL
    /\ cursor = "default"
    /\ \A n \in GlowNames : glowOpacity[n] = 0

\* C9: a click whose nearest hit is a body proxy, the gated Oort case aside,
\* emits exactly one planetSelected carrying that body's full record and
\* leaves the tooltip, the hovered halo and the belt highlight as they were.
ClickSelectsAndKeepsHover ==
    [][(/\ lastEvent'.op = "click"
        /\ lastEvent'.hit # NoHit
        /\ ~(/\ lastEvent'.hit = OORT_CLOUD_PLANET.name
             /\ LengthSq(camera) <= OortGate * OortGate))
          => /\ emitted' = <<PlanetSelected(PlanetOf(lastEvent'.hit))>>
             /\ UNCHANGED <<hoveredPlanet, currentHoveredGlow, glowOpacity,
                            currentHoveredBelt, beltMat>>]_vars

\* a hovered body has been clicked: one event, and the hover is still there
ClickedWhileHovering ==
    /\ lastEvent.op = "click"
    /\ lastEvent.hit \in GlowNames
    /\ emitted = <<PlanetSelected(PlanetOf(lastEvent.hit))>>
    /\ hoveredPlanet = Tooltip(PlanetOf(lastEvent.hit))
    /\ glowOpacity[lastEvent.hit] = HoverOpacity

(***************************************************************************)
(* Properties of the camera transition                                     *)
(***************************************************************************)
\* C5: a double-click whose nearest hit is a non-Oort body creates a
\* transition with progress 0 whose toTarget is the body's position and whose
\* toCam lies on the camera's bearing from it at the class-dependent
\* distance: 120 for the belt, 20 for a comet, otherwise
\* max(visualRadius * 8, minDistance + 5); that distance is at least
\* minDistance.
FocusCreatesTransition ==
    (lastEvent.op = "dblclick"
       /\ lastEvent.hit \notin {NoHit, OORT_CLOUD_PLANET.name})
    => /\ zoomAnim # NULL
       /\ zoomAnim.t = 0
       /\ zoomAnim.toTarget = HitPosition(lastEvent.hit, meanAnomaly)
       /\ LET body == PlanetOf(lastEvent.hit)
              dist == IF body.is_asteroid_belt THEN BeltZoom
                      ELSE IF body.is_comet THEN CometZoom
                      ELSE Max(ZoomVisualRadius(body.name) * 4,
                               minDistance + ZoomFloorMargin)
              reach == DistanceTo(zoomAnim.toCam, zoomAnim.toTarget)
              a == VSub(zoomAnim.toCam, zoomAnim.toTarget)
              b == VSub(camera, zoomAnim.toTarget)
          IN  \* the distance, up to the rounding of toCam to the lattice
              /\ Abs(reach - dist) <= 2
              /\ reach >= minDistance
              \* a is b scaled by a positive factor, up to that rounding
              /\ a[1] * b[1] + a[2] * b[2] + a[3] * b[3] > 0
              /\ Abs(a[2] * b[3] - a[3] * b[2]) <= Abs(b[2]) + Abs(b[3])
              /\ Abs(a[3] * b[1] - a[1] * b[3]) <= Abs(b[3]) + Abs(b[1])
              /\ Abs(a[1] * b[2] - a[2] * b[1]) <= Abs(b[1]) + Abs(b[2])

\* Jupiter has been double-clicked: the transition ends 25.6 units from it
FocusOnJupiter ==
    /\ lastEvent = Event("dblclick", "Jupiter")
    /\ zoomAnim # NULL
    /\ zoomAnim.t = 0
    /\ DistanceTo(zoomAnim.toCam, zoomAnim.toTarget) \in 127..129

\* C6: while a transition is pending its progress starts at 0, stays in
\* [0, 1], grows by 0.04 on each tick, never decreases, and reaches 1 on the
\* 25th tick, which ticks that keep running bring about.
ProgressAdvances ==
    /\ [](zoomAnim # NULL
            => zoomAnim.t \in 0..(ProgressEnd - ProgressStep)
               /\ zoomAnim.t % ProgressStep = 0)
    /\ [][(lastEvent'.op = "dblclick" /\ zoomAnim' # zoomAnim)
            => zoomAnim'.t = 0]_vars
    /\ [][(zoomAnim # NULL /\ lastEvent'.op = "animate")
            => IF zoomAnim.t < 24 * ProgressStep
               THEN zoomAnim' = [zoomAnim EXCEPT !.t = zoomAnim.t + ProgressStep]
               ELSE zoomAnim' = NULL]_vars
    /\ [][(zoomAnim # NULL /\ lastEvent'.op # "dblclick" /\ zoomAnim' # NULL)
            => zoomAnim'.t >= zoomAnim.t]_vars
    /\ (zoomAnim # NULL ~> zoomAnim = NULL)

\* a transition is one tick short of completion, 24 ticks after its start
ProgressAlmostDone ==
    zoomAnim # NULL /\ zoomAnim.t = 24 * ProgressStep

\* C7: on the tick at which the progress reaches 1 the camera position and
\* the orbit target are the captured toCam and toTarget, the transition is
\* discarded and camera control is re-enabled; later ticks leave the camera
\* and the orbit target alone until a new double-click.
CompletionSnapsAndReleases ==
    /\ [][(/\ zoomAnim # NULL
           /\ lastEvent'.op = "animate"
           /\ zoomAnim.t + ProgressStep >= ProgressEnd)
            => /\ camera' = zoomAnim.toCam
               /\ target' = zoomAnim.toTarget
               /\ zoomAnim' = NULL
               /\ controlsEnabled' = TRUE]_vars
    /\ [][(zoomAnim = NULL /\ lastEvent'.op = "animate")
            => /\ camera' = camera
               /\ target' = target
               /\ zoomAnim' = NULL]_vars

\* a transition has completed: the camera rests near the focused body and
\* camera control is back
TransitionCompleted ==
    /\ lastEvent.op = "animate"
    /\ focusCount > 0
    /\ zoomAnim = NULL
    /\ controlsEnabled
    /\ DistanceTo(camera, target) <= BeltZoom

(***************************************************************************)
(* Properties of the interaction session                                   *)
(***************************************************************************)
\* C8: a pending transition implies that camera control is disabled, and no
\* external camera manipulation (a drag, a navigation step) changes the
\* camera position or the orbit target while it is pending.
TransitionSuspendsControl ==
    /\ [](zoomAnim # NULL => ~controlsEnabled)
    /\ [][(/\ zoomAnim # NULL
           /\ lastEvent'.op \in {"controlsStart", "startNav", "navTimer"})
            => camera' = camera /\ target' = target]_vars

\* C10: a double-click whose nearest hit is a non-Oort body clears the
\* tooltip and the hover feedback (halo, belt highlight), emits closeInfo,
\* disables camera control and starts a transition; a double-click on the
\* Oort body or on nothing changes nothing.
DblClickClearsHover ==
    [][lastEvent'.op = "dblclick"
         => IF lastEvent'.hit \notin {NoHit, OORT_CLOUD_PLANET.name}
            THEN /\ hoveredPlanet' = NULL
                 /\ currentHoveredGlow' = UNDEFINED
                 /\ \A n \in GlowNames : glowOpacity'[n] = 0
                 /\ ~currentHoveredBelt'
                 /\ beltMat' = BeltNormal
                 /\ emitted' = <<CloseInfo>>
                 /\ ~controlsEnabled'
                 /\ zoomAnim' # NULL
            ELSE /\ emitted' = <<>>
                 /\ UNCHANGED <<zoomAnim, controlsEnabled, hoveredPlanet,
                                currentHoveredGlow, glowOpacity,
                                currentHoveredBelt, beltMat, selectedPlanet>>]_vars

\* C11: a camera-manipulation start (the controls 'start' event) clears the
\* hover state, tooltip and hover feedback of the hovered body alike, and
\* emits closeInfo when an info panel is open.
ControlsStartClearsHover ==
    [][lastEvent'.op = "controlsStart"
         => /\ hoveredPlanet' = NULL
            /\ currentHoveredGlow' = UNDEFINED
            /\ \A n \in GlowNames : glowOpacity'[n] = 0
            /\ ~currentHoveredBelt'
            /\ beltMat' = BeltNormal
            /\ (selectedPlanet # NULL => emitted' = <<CloseInfo>>)]_vars

\* C12: a camera drag never changes the selection: App.selectedPlanet is the
\* same before and after every controls 'start' event, whatever is selected.
DragKeepsSelection ==
    [][lastEvent'.op = "controlsStart"
         => selectedPlanet' = selectedPlanet]_vars

\* a drag has just started while a body is selected
DraggedWithSelection ==
    /\ lastEvent.op = "controlsStart"
    /\ selectedPlanet # NULL

\* C14: at most one body is hovered at a time: at most one halo has non-zero
\* opacity, a halo and the belt highlight are never active together, and a
\* pointer move onto a body leaves every other body's feedback reset (halo
\* opacity 0, belt colour and size restored).
AtMostOneHovered ==
    /\ [](/\ Cardinality({n \in GlowNames : glowOpacity[n] # 0}) <= 1
          /\ ~(beltMat = BeltHighlight /\ \E n \in GlowNames : glowOpacity[n] # 0))
    /\ [][lastEvent'.op = "mousemove"
            => /\ \A n \in GlowNames \ {lastEvent'.hit} : glowOpacity'[n] = 0
               /\ (~IsAsteroidBelt(lastEvent'.hit) => beltMat' = BeltNormal)]_vars

\* the pointer has moved onto Earth: its halo is lit and it is the one
\* remembered as hovered
PointerOnEarth ==
    /\ lastEvent = Event("mousemove", "Earth")
    /\ glowOpacity["Earth"] = HoverOpacity
    /\ currentHoveredGlow = "Earth"

\* C13: a pinch-start (a touchstart with two or more contacts) clears the
\* hover state, tooltip and hover feedback alike, and emits closeInfo, as a
\* camera-manipulation start does; a touchstart with a single contact emits
\* no closeInfo.
PinchStartClearsHover ==
    [][lastEvent'.op = "touchstart"
         => IF lastEvent'.touches >= 2
            THEN /\ hoveredPlanet' = NULL
                 /\ currentHoveredGlow' = UNDEFINED
                 /\ \A n \in GlowNames : glowOpacity'[n] = 0
                 /\ ~currentHoveredBelt'
                 /\ beltMat' = BeltNormal
                 /\ emitted' = <<CloseInfo>>
            ELSE emitted' = <<>>]_vars

\* C15: picking takes the nearest intersected proxy and the Oort proxy has the
\* lowest priority: at every camera position the controls allow, whenever the
\* pointer ray meets both the Oort proxy and the proxy of another body, the
\* pick that hover, click and double-click use is the other body.
OortLowestPriority ==
    \A aim \in Aims :
        LET dir == AimDir(aim, camera, meanAnomaly)
            hs == RayHits(camera, dir, meanAnomaly)
        IN  (/\ dir # Origin
             /\ \E h \in hs : h.owner = OORT_CLOUD_PLANET.name
             /\ \E h \in hs : h.owner # OORT_CLOUD_PLANET.name)
              => FirstOwner(hs) # OORT_CLOUD_PLANET.name

(***************************************************************************)
(* Properties of continuous navigation and teardown                        *)
(***************************************************************************)
\* C17: after any sequence of startNav and stopNav calls with timer firings
\* in between, at most one navigation timer is running and it is the one
\* _navInterval holds; startNav leaves exactly the timer of its action,
\* stopNav leaves none, and a second stopNav changes nothing.
AtMostOneNavTimer ==
    /\ [](/\ Len(timers) <= 1
          /\ timers = IF navInterval = UNDEFINED THEN <<>> ELSE <<navInterval>>)
    /\ [][lastEvent'.op = "startNav" => Len(timers') = 1]_vars
    /\ [][lastEvent'.op = "stopNav"
            => /\ timers' = <<>>
               /\ navInterval' = UNDEFINED
               /\ (navInterval = UNDEFINED
                     => UNCHANGED <<timers, navInterval, camera, target>>)]_vars

\* a second press has replaced the timer of the first one
SecondPressReplacedTimer ==
    /\ lastEvent.op = "startNav"
    /\ navSteps = 2
    /\ timers = <<"zoomOut">>

\* C16: ngOnDestroy cancels the pending animation-frame request, stops the
\* navigation timer and removes every subscription it registered, so that
\* after it no tick, no navigation step and no handler runs again; a
\* transition in flight is left as it is, neither advanced nor completed.
TeardownStopsEverything ==
    /\ [][lastEvent'.op = "ngOnDestroy"
            => /\ animationId' = "cancelled"
               /\ timers' = <<>>
               /\ navInterval' = UNDEFINED
               /\ listeners' = {}
               /\ UNCHANGED <<zoomAnim, camera, target, controlsEnabled>>]_vars
    /\ [][~destroyed]_vars

\* the component was destroyed during a transition, with the tooltip shown
DestroyedInFlight ==
    /\ destroyed
    /\ zoomAnim # NULL
    /\ zoomAnim.t > 0
    /\ hoveredPlanet # NULL

FetchOutcome ==
    /\ [][lastEvent'.op = "fetchError"
            => /\ error' = ConnectivityError
               /\ loading' = FALSE
               /\ appPlanets' = <<>>]_vars
    /\ [][lastEvent'.op = "fetchNext"
            => /\ appPlanets' = planets
               /\ loading' = FALSE
               /\ error' = NULL]_vars
    /\ [][error # NULL => FALSE]_vars
    /\ [](error # NULL => (appPlanets = <<>> /\ animationId # "requested"))
    /\ <>[](loading = FALSE)

\* the fetch has failed: the message is set and no frame was requested
FetchFailed ==
    /\ lastEvent.op = "fetchError"
    /\ error = ConnectivityError
    /\ ~loading
    /\ animationId = "none"

(***************************************************************************)
(* Properties of the Kepler solver                                         *)
(***************************************************************************)
\* C20: for every eccentricity in [0, 0.97) and every mean anomaly in
\* [0, 2 pi) the E of solveKepler's Newton loop satisfies Kepler's equation
\* to 1e-9: |E - e sin E - M| < 1e-9.  In units of 1e-8 such an E leaves a
\* residual of at most 5, the rounding of the arithmetic included.
KeplerResidualSmall ==
    kepler # NULL
      => Abs(kepler.E - MulFix(kepler.e, Sin(kepler.E)) - kepler.M) <= 5

(***************************************************************************)
(* Properties of the frame tick                                            *)
(***************************************************************************)
\* C21: the world radius a tick gives to a rescaled hit proxy is
\* (30 / halfScreenHeight) * distanceToCamera * tan(halfFov), for planets,
\* comets and the Sun alike: it is that product up to the rounding of the
\* lattice, so the radii of two proxies are in the ratio of their camera
\* distances, with no offset.
HitRadiusLinear ==
    [][lastEvent'.op = "animate"
         => \A a, b \in GlowNames :
              LET da == DistanceTo(camera, HitPosition(a, meanAnomaly'))
                  db == DistanceTo(camera, HitPosition(b, meanAnomaly'))
              IN  /\ 2 * Abs(hitRadius'[a] * HalfScreenH * 1000
                               - HIT_PX * da * TanHalfFov) <= HalfScreenH * 1000
                  /\ 2 * Abs(hitRadius'[a] * db - hitRadius'[b] * da) <= da + db]_vars

\* a tick has sized the proxies with the camera at rest close to Earth:
\* Earth's proxy is about half a world unit in radius, the comet's far larger
ProxiesRescaledNearEarth ==
    /\ lastEvent.op = "animate"
    /\ zoomAnim = NULL
    /\ focusCount > 0
    /\ hitRadius["Earth"] <= 5
    /\ hitRadius[COMET_PLANET.name] > 5 * hitRadius["Earth"]

\* C22: within a tick every planet is repositioned before any moon is
\* processed: after every tick each moon's position is its parent's position
\* of that same tick plus the moon's circular offset, and the moon's orbit
\* ring is at the parent's current position.
MoonsFollowParent ==
    \A m \in MoonNames :
        LET pp == HitPosition(MoonDef(m).parentName, meanAnomaly)
        IN  /\ moons[m].position = MoonPosition(MoonDef(m), moons[m].angle, pp)
            /\ moons[m].orbitLine = pp

\* a tick has moved Earth off its start position and the Moon off its start
\* angle
MoonMovedWithEarth ==
    /\ lastEvent.op = "animate"
    /\ meanAnomaly["Earth"] \notin StartAnomalies
    /\ moons["Mesec"].angle # 0
    /\ moons["Mesec"].orbitLine = keplerToWorld("Earth", meanAnomaly["Earth"])

\* C23: each tick adds speed_body * simulationSpeed to the mean anomaly of
\* every planet and comet and to the angle of every moon (the model keeps
\* them within a revolution); while the simulation speed is 0 a tick leaves
\* every mean anomaly, moon angle and body position as it was, and the step a
\* tick adds is never negative.
TickAdvancesBySpeed ==
    [][lastEvent'.op = "animate"
         => /\ \A n \in AnomalyNames :
                 /\ PlanetSpeed(PlanetOf(n)) * simulationSpeed >= 0
                 /\ (meanAnomaly'[n] - meanAnomaly[n]) % Revolution
                      = (PlanetSpeed(PlanetOf(n)) * simulationSpeed) % Revolution
            /\ \A m \in MoonNames :
                 /\ MoonSpeed(MoonDef(m)) * simulationSpeed >= 0
                 /\ (moons'[m].angle - moons[m].angle) % Revolution
                      = (MoonSpeed(MoonDef(m)) * simulationSpeed) % Revolution
            /\ simulationSpeed = 0
                 => /\ UNCHANGED <<meanAnomaly, moons>>
                    /\ \A n \in HitNames :
                         HitPosition(n, meanAnomaly') = HitPosition(n, meanAnomaly)]_vars

\* a tick has run while the simulation was paused, after the bodies had moved
PausedTick ==
    /\ lastEvent.op = "animate"
    /\ simulationSpeed = 0
    /\ meanAnomaly[COMET_PLANET.name] # 0
    /\ moons["Io"].angle # 0

\* C24: at the render step of every tick each rescaled hit proxy (planets,
\* comets, Sun) has the world radius of the constant 30 px screen radius for
\* the camera position that render uses, also on ticks where a camera
\* transition or controls.update() moves the camera: no camera change lies
\* between the rescale and the render.
ProxiesFitRenderCamera ==
    [][lastEvent'.op = "animate"
         => \A n \in GlowNames :
              hitRadius'[n]
                = HitRadius(DistanceTo(camera', HitPosition(n, meanAnomaly')))]_vars

(***************************************************************************)
(* Properties of the scene construction                                    *)
(***************************************************************************)
\* C25: no body is silently dropped: for any input list every record yields
\* exactly one body with a hit proxy, with the default visual radius when
\* VISUAL_SIZES lacks its name, and every configured comet and moon is
\* created as well.
AllBodiesBuilt ==
    lastEvent.op = "fetchNext"
      => /\ Len(scene.hitMeshes) = Len(appPlanets) + 3
         /\ \A i \in 1..Len(appPlanets) :
              /\ Cardinality({k \in 1..Len(scene.hitMeshes) :
                                scene.hitMeshes[k] = appPlanets[i]}) = 1
              /\ ~appPlanets[i].is_star
                   => \E k \in 1..Len(scene.planetObjects) :
                        /\ scene.planetObjects[k].planet = appPlanets[i]
                        /\ scene.planetObjects[k].visualRadius
                             = IF appPlanets[i].name \in DOMAIN VISUAL_SIZES
                               THEN VISUAL_SIZES[appPlanets[i].name] ELSE 10
         /\ scene.cometObjects = <<COMET_PLANET>>
         /\ scene.moonObjects = MOON_DEFS

\* C25, amended: for any input list every record yields exactly one body with
\* a hit proxy, with the default visual radius when VISUAL_SIZES lacks its
\* name, and every configured comet is created; a configured moon is created
\* exactly when its parent is among the non-star records of the list.
BodiesBuiltMoonsWithParent ==
    lastEvent.op = "fetchNext"
      => /\ Len(scene.hitMeshes) = Len(appPlanets) + 3
         /\ \A i \in 1..Len(appPlanets) :
              /\ Cardinality({k \in 1..Len(scene.hitMeshes) :
                                scene.hitMeshes[k] = appPlanets[i]}) = 1
              /\ ~appPlanets[i].is_star
                   => \E k \in 1..Len(scene.planetObjects) :
                        /\ scene.planetObjects[k].planet = appPlanets[i]
                        /\ scene.planetObjects[k].visualRadius
                             = IF appPlanets[i].name \in DOMAIN VISUAL_SIZES
                               THEN VISUAL_SIZES[appPlanets[i].name] ELSE 10
         /\ scene.cometObjects = <<COMET_PLANET>>
         /\ \A d \in 1..Len(MOON_DEFS) :
              (\E k \in 1..Len(scene.moonObjects) : scene.moonObjects[k] = MOON_DEFS[d])
                <=> \E i \in 1..Len(appPlanets) :
                       /\ ~appPlanets[i].is_star
                       /\ appPlanets[i].name = MOON_DEFS[d].parentName

\* a list with a record of unknown name and without Mars has been built: the
\* unknown body is there with the default radius, Phobos is not
UnknownBodyBuiltPhobosSkipped ==
    /\ lastEvent.op = "fetchNext"
    /\ Len(appPlanets) = 3
    /\ \E k \in 1..Len(scene.planetObjects) :
          /\ scene.planetObjects[k].planet.name = "Pluto"
          /\ scene.planetObjects[k].visualRadius = 10
    /\ \A i \in 1..Len(appPlanets) : appPlanets[i].name # "Mars"
    /\ \A k \in 1..Len(scene.moonObjects) : scene.moonObjects[k].name # "Fobos"

(***************************************************************************)
(* Properties of the pointer handlers                                      *)
(***************************************************************************)
\* C26: pointer input is not processed per event: the hit test and the hover
\* update run once per frame tick against the latest pointer position, so a
\* pointer move by itself evaluates no hover and leaves the hover state, the
\* tooltip and the cursor as they were.
HoverEvaluatedOnTickOnly ==
    [][lastEvent'.op = "mousemove"
         => UNCHANGED <<hoveredPlanet, currentHoveredGlow, glowOpacity,
                        currentHoveredBelt, beltMat, cursor>>]_vars

\* C27: while the camera is at or below the threshold distance from the
\* origin, a pointer move, click or double-click whose nearest hit is the
\* Oort proxy has the observable outcome (hover state, tooltip, cursor,
\* emitted events, selection, transition) of the same event hitting nothing.
GatedOortHitAsNoHit ==
    [][(/\ lastEvent'.op \in {"mousemove", "click", "dblclick"}
        /\ lastEvent'.hit = OORT_CLOUD_PLANET.name
        /\ OortGated(OORT_CLOUD_PLANET, camera))
         => /\ emitted' = <<>>
            /\ UNCHANGED <<selectedPlanet, zoomAnim, controlsEnabled, camera, target>>
            /\ IF lastEvent'.op = "mousemove"
               THEN /\ hoveredPlanet' = NULL
                    /\ currentHoveredGlow' = UNDEFINED
                    /\ glowOpacity' = HoverGlow(NoHit)
                    /\ currentHoveredBelt' = FALSE
                    /\ beltMat' = HoverBelt(NoHit)
                    /\ cursor' = "default"
               ELSE UNCHANGED <<hoveredPlanet, currentHoveredGlow, glowOpacity,
                                currentHoveredBelt, beltMat, cursor>>]_vars

(***************************************************************************)
(* Properties of interleaved gestures                                      *)
(***************************************************************************)
\* C28: a double-click on a non-Oort body while a transition is pending
\* replaces it by a new transition that starts from the camera's current
\* (mid-flight) position and target with progress 0 and keeps the controls
\* disabled; after every step that leaves a transition pending the controls
\* are disabled; every tick advances the progress by 0.04 from 0, so the transition ends and
\* the controls are enabled again within 25 ticks of the last double-click.
RefocusRestartsTransition ==
    /\ [][(lastEvent'.op = "dblclick" /\ zoomAnim # NULL /\ Focusable(lastEvent'.hit))
            => /\ zoomAnim' # NULL
               /\ zoomAnim'.fromCam = camera
               /\ zoomAnim'.fromTarget = target
               /\ zoomAnim'.toTarget = HitPosition(lastEvent'.hit, meanAnomaly)
               /\ zoomAnim'.t = 0
               /\ ~controlsEnabled'
               /\ UNCHANGED <<camera, target>>]_vars
    /\ [][zoomAnim' # NULL
            => ~controlsEnabled' /\ zoomAnim'.t \in {ProgressStep * k : k \in 0..24}]_vars
    /\ [][(lastEvent'.op = "animate" /\ zoomAnim # NULL)
            => IF zoomAnim.t = ProgressStep * 24
               THEN zoomAnim' = NULL /\ controlsEnabled'
               ELSE zoomAnim' # NULL /\ zoomAnim'.t = zoomAnim.t + ProgressStep]_vars
    /\ (zoomAnim # NULL ~> (zoomAnim = NULL /\ controlsEnabled))

\* the transition towards Jupiter was replaced mid-flight by one towards
\* Earth, which starts where the camera was and has been running since
RefocusedMidFlight ==
    /\ zoomAnim # NULL
    /\ zoomAnim.toTarget = HitPosition("Earth", meanAnomaly)
    /\ zoomAnim.fromCam # Vec(0, 2250, 5500)
    /\ zoomAnim.fromTarget # Origin
    /\ zoomAnim.t > 0
    /\ ~controlsEnabled

\* C29: navigation steps interleaved with a pending transition do not
\* disturb it: at the end of every tick that leaves the transition pending,
\* the camera position and the orbit target are the interpolations of the
\* captured fromCam/toCam and fromTarget/toTarget at ease(progress), whatever
\* navigation steps ran since the tick before.
TransitionUndisturbedByNav ==
    [][(lastEvent'.op = "animate" /\ zoomAnim' # NULL)
         => /\ camera' = lerpVectors(zoomAnim'.fromCam, zoomAnim'.toCam,
                                     Ease(zoomAnim'.t))
            /\ target' = lerpVectors(zoomAnim'.fromTarget, zoomAnim'.toTarget,
                                     Ease(zoomAnim'.t))]_vars

\* a tick of a transition that started at the initial camera, hence before
\* the navigation steps of the behaviour, all of which move the camera
TickAfterNavStepsInTransition ==
    /\ lastEvent.op = "animate"
    /\ zoomAnim # NULL
    /\ zoomAnim.fromCam = Vec(0, 2250, 5500)
    /\ zoomAnim.t >= 2 * ProgressStep
    /\ navSteps = MaxNavSteps

\* C30: a double-click gesture on a selectable non-Oort body arrives as
\* click, click, dblclick on the same hit: the clicks have set
\* App.selectedPlanet to the body, and the dblclick emits closeInfo, which
\* resets it to null, and leaves a transition pending.
GestureClosesInfo ==
    [][(/\ lastEvent.op = "click"
        /\ lastEvent'.op = "dblclick"
        /\ lastEvent'.hit = lastEvent.hit
        /\ Focusable(lastEvent.hit))
         => /\ selectedPlanet = PlanetOf(lastEvent.hit)
            /\ emitted = <<PlanetSelected(PlanetOf(lastEvent.hit))>>
            /\ emitted' = <<CloseInfo>>
            /\ selectedPlanet' = NULL
            /\ zoomAnim' # NULL
            /\ ~controlsEnabled']_vars

\* the gesture on Earth has been handled: the panel is closed and the
\* transition towards Earth is pending
GestureOnEarthHandled ==
    /\ lastEvent = Event("dblclick", "Earth")
    /\ emitted = <<CloseInfo>>
    /\ selectedPlanet = NULL
    /\ zoomAnim # NULL
    /\ zoomAnim.toTarget = HitPosition("Earth", meanAnomaly)

====
